---- MODULE Spec2Model ----
(***************************************************************************)
(* TradeCopilot: the analyze edge function in its four handler variants    *)
(* (unnamed/part_004, analyze-improved.ts, analyze-minimal.ts and the      *)
(* deployed supabase/functions/analyze/index.ts), as one request/response  *)
(* state machine around the single outbound call to the chat-completion    *)
(* provider (Spec); the chat page's handleSendMessage with its retry loop  *)
(* (ChatSpec); and the tables with their row-level security, foreign keys  *)
(* and the Settings page's upsert (DbSpec); the composer's concurrent      *)
(* sends (ComposerSpec); TradesAPI.getStats (StatsSpec); the policies of   *)
(* storage.objects (StorageSpec); and useAudioRecorder (RecorderSpec).     *)
(***************************************************************************)
EXTENDS Integers, Sequences, FiniteSets, TLC

VARIABLES
    variant,        \* which handler source is deployed
    openAIApiKey,   \* Deno.env.get('OPENAI_API_KEY'): "" when not configured
    pc,             \* "idle" | "awaitFetch" | "done"
    request,        \* the HTTP request being served
    fetchCalls,     \* calls to the completion provider made for this request
    fetchLog,       \* outcome (ok flag) of each provider call of this request
    fetchBody,      \* body of the outbound chat-completions request
    completion,     \* what the provider answered
    reply,          \* the HTTP response of the handler
    conversations,  \* table public.conversations
    user_settings,  \* table user_settings
    memoriesTable,  \* table public.memories
    fault,          \* the lookup of this request that fails, if any
    storeReads,     \* tables this request queried, in order
    userSettings,   \* the handler's userSettings
    memoryData,     \* rows the memories query returned
    memories,       \* the handler's memories: string[]
    messages,       \* table public.messages
    trades,         \* table public.trades
    chatPc,         \* where the chat page's handleSendMessage stands
    sending,        \* handleSendMessage's arguments
    useMemory,      \* the chat page's memory toggle
    conversationId, \* the chat page's conversation
    retryCount,     \* handleSendMessage's retryCount
    invocations,    \* outcomes of this send's analyze invocations, in order
    delays,         \* the waits of this send, in milliseconds, in order
    writes,         \* the save calls of this send, in order
    toasts,         \* the toasts of this send, in order
    isLoading,      \* the chat page's isLoading
    showSaveModal,  \* the chat page's showSaveModal
    sends,          \* sends so far
    session,        \* auth.uid() of the database session at work
    returned,       \* rows the last statement returned to its session
    affected,       \* rows the last statement wrote or removed
    page,           \* which chat page source is mounted
    stats,          \* what TradesAPI.getStats returned last
    objects,        \* table storage.objects
    isRecording,    \* useAudioRecorder's isRecording
    mediaRecorderRef, \* mediaRecorderRef.current
    intervalRef,    \* intervalRef.current
    recorders,      \* the media recorders that are recording
    timers,         \* the duration intervals that are set
    pendingStarts,  \* startRecording calls awaiting getUserMedia
    uploads,        \* onstop handlers awaiting their upload
    stopResult,     \* what the last stopRecording resolved or will resolve
    lastCall,       \* the last step of the recorder hook
    starts,         \* startRecording calls so far
    composerMessage, \* the composer's message
    uploadedImage,  \* the composer's uploadedImage
    inFlight        \* the handleSendMessage calls that are running

tables == <<conversations, user_settings, memoriesTable>>
chat == <<chatPc, sending, useMemory, conversationId, retryCount, invocations,
          delays, writes, toasts, isLoading, showSaveModal, sends>>
db == <<messages, trades, session, returned, affected>>
recorder == <<isRecording, mediaRecorderRef, intervalRef, recorders, timers, pendingStarts,
              uploads, stopResult, lastCall, starts>>
composer == <<composerMessage, uploadedImage, inFlight>>
aside == <<stats, objects, recorder, composer>>
loaded == <<fault, storeReads, userSettings, memoryData, memories>>

handler == <<variant, openAIApiKey, pc, request, fetchCalls, fetchLog, fetchBody,
             completion, reply, loaded>>

vars == <<handler, tables, chat, db, page, aside>>

-----------------------------------------------------------------------------
(* Bounds *)

MaxImages == 2
MaxNotes == 12

-----------------------------------------------------------------------------
(* JavaScript values.  Every value is [t, s, f]: t its type, s its text    *)
(* (the characters of a string, the JSON text of anything else), f its own *)
(* enumerable properties.                                                  *)

NoProps == [k \in {} |-> 0]

J(t, s) == [t |-> t, s |-> s, f |-> NoProps]

undefined == J("undefined", "")
null == J("null", "null")
Str(s) == J("str", s)
Num(s) == J("num", s)
Arr(s) == J("arr", s)
Obj(props) == [t |-> "obj", s |-> "", f |-> props]

\* ToBoolean: what `!x`, `x || y` and `if (x)` test.
Truthy(v) ==
    CASE v.t = "undefined" -> FALSE
      [] v.t = "null" -> FALSE
      [] v.t = "str" -> v.s # ""
      [] v.t = "num" -> v.s # "0"
      [] v.t = "bool" -> v.s = "true"
      [] OTHER -> TRUE

IsNullish(v) == v.t \in {"undefined", "null"}
IsObject(v) == v.t \in {"obj", "arr"}

\* `v.k`: a TypeError on null and undefined, undefined for a key the value
\* does not have (no primitive wrapper has narrative or memory_hint).
GetThrows(v) == IsNullish(v)
Get(v, k) == IF IsObject(v) /\ k \in DOMAIN v.f THEN v.f[k] ELSE undefined

\* `v.k = x`: the handlers are ES modules, hence strict code, where creating
\* a property on a primitive (or on null) is a TypeError.
SetThrows(v) == ~IsObject(v)
Set(v, k, x) ==
    [v EXCEPT !.f = [q \in (DOMAIN v.f) \cup {k} |-> IF q = k THEN x ELSE v.f[q]]]

\* `v.hasOwnProperty(k)`: a TypeError on null, false on a primitive.
HasOwnThrows(v) == IsNullish(v)
HasOwn(v, k) == IsObject(v) /\ k \in DOMAIN v.f

\* JSON.stringify followed by the caller's JSON.parse: an object loses the
\* keys whose value is undefined, an array loses every named property.
Stringify(v) ==
    CASE v.t = "obj" ->
           [v EXCEPT !.f = [q \in {p \in DOMAIN v.f : v.f[p].t # "undefined"} |-> v.f[q]]]
      [] v.t = "arr" -> [v EXCEPT !.f = NoProps]
      [] OTHER -> v

-----------------------------------------------------------------------------
(* The texts the provider may put into choices[0].message.content, and     *)
(* what JSON.parse makes of each.                                          *)

ProseText == "Sure, here's my take..."

JsonTexts ==
    { "null", "5", "\"hi\"", "[]", "{}",
      "{\"narrative\":\"Buy the dip\"}",
      "{\"narrative\":\"\"}",
      "{\"narrative\":null,\"memory_hint\":\"Prefers breakouts\"}",
      "{\"memory_hint\":\"Prefers breakouts\"}",
      "{\"narrative\":\"Buy the dip\",\"memory_hint\":null}",
      "{\"narrative\":\"Buy the dip\",\"memory_hint\":\"\"}",
      "{\"narrative\":\"Buy the dip\",\"memory_hint\":\"Prefers breakouts\"}" }

RawTexts == {"", ProseText, "{\"narrative\":"} \cup JsonTexts

\* JSON.parse succeeds exactly on the JSON texts.
ParseThrows(raw) == raw \notin JsonTexts

JSONparse(raw) ==
    CASE raw = "null" -> null
      [] raw = "5" -> Num("5")
      [] raw = "\"hi\"" -> Str("hi")
      [] raw = "[]" -> Arr("[]")
      [] raw = "{}" -> Obj(NoProps)
      [] raw = "{\"narrative\":\"Buy the dip\"}" ->
           Obj([narrative |-> Str("Buy the dip")])
      [] raw = "{\"narrative\":\"\"}" ->
           Obj([narrative |-> Str("")])
      [] raw = "{\"narrative\":null,\"memory_hint\":\"Prefers breakouts\"}" ->
           Obj([narrative |-> null, memory_hint |-> Str("Prefers breakouts")])
      [] raw = "{\"memory_hint\":\"Prefers breakouts\"}" ->
           Obj([memory_hint |-> Str("Prefers breakouts")])
      [] raw = "{\"narrative\":\"Buy the dip\",\"memory_hint\":null}" ->
           Obj([narrative |-> Str("Buy the dip"), memory_hint |-> null])
      [] raw = "{\"narrative\":\"Buy the dip\",\"memory_hint\":\"\"}" ->
           Obj([narrative |-> Str("Buy the dip"), memory_hint |-> Str("")])
      [] raw = "{\"narrative\":\"Buy the dip\",\"memory_hint\":\"Prefers breakouts\"}" ->
           Obj([narrative |-> Str("Buy the dip"), memory_hint |-> Str("Prefers breakouts")])
      [] OTHER -> undefined

-----------------------------------------------------------------------------
(* Handler variants and their fixed strings *)

Part004 == "part_004"            \* src/unnamed/part_004
Improved == "analyze-improved"   \* src/analyze-improved.ts
Minimal == "analyze-minimal"     \* src/analyze-minimal.ts
Stub == "functions/analyze"      \* src/supabase/functions/analyze/index.ts

Variants == {Part004, Improved, Minimal, Stub}

ValidationMessage == "Either imageUrls or contextText must be provided"
KeyMessage == "OpenAI API key not configured"
BodySyntaxError == "Unexpected end of JSON input"
ProviderSyntaxError == "Unexpected token '<', \"<html>\" is not valid JSON"
ChoicesTypeError == "Cannot read properties of undefined (reading '0')"
ReadTypeError == "Cannot read properties of null"
CreateTypeError == "Cannot create property on a primitive value"

ApologyNarrative ==
    "I apologize, but I encountered an error while analyzing your request. Please try again or contact support if the issue persists."
FormattingNarrative == "I'm having trouble with response formatting. Please try again."
JsonFormattingNarrative == "I'm having trouble with JSON formatting. Please try again."
ParsingHint == "User experienced parsing issues with AI response"
JsonParsingHint == "User experienced JSON parsing issues"
DefaultHint == "No specific trading insight from this interaction"
ErrorHint == "Error encountered during analysis"
DefaultMessage == "Analyze this trading setup"

VisionModel == "gpt-4o"
TextModel == "gpt-4o-mini"
Gpt41Model == "gpt-4.1-2025-04-14"

EmptyScenarios == J("obj", "{\"bull\":\"\",\"bear\":\"\",\"invalidation\":\"\"}")

-----------------------------------------------------------------------------
(* Requests *)

Urls == {"https://x/y.png", "https://x/z.png"}

RECURSIVE SeqsUpTo(_, _)
SeqsUpTo(S, n) ==
    IF n = 0 THEN {<<>>}
    ELSE LET shorter == SeqsUpTo(S, n - 1)
         IN shorter \cup {Append(q, x) : q \in {r \in shorter : Len(r) = n - 1}, x \in S}

\* imageUrls and contextText are undefined when the body omits them.
ImageUrlValues == {undefined} \cup {[t |-> "arr", s |-> "", f |-> q] : q \in SeqsUpTo(Urls, MaxImages)}
ContextTextValues == {undefined, Str(""), Str("NQ breaking out")}
ConversationIds == {undefined, Str("c1")}

NoBody ==
    [imageUrls |-> undefined, contextText |-> undefined, conversationId |-> undefined,
     requestAnalysis |-> FALSE, useMemory |-> FALSE]

Requests ==
    {[method |-> "OPTIONS", json |-> FALSE, body |-> NoBody],
     [method |-> "POST", json |-> FALSE, body |-> NoBody]}
    \cup
    {[method |-> "POST", json |-> TRUE, body |-> b] :
        b \in [imageUrls : ImageUrlValues, contextText : ContextTextValues,
               conversationId : ConversationIds,
               requestAnalysis : BOOLEAN, useMemory : BOOLEAN]}

NoRequest == [method |-> "", json |-> FALSE, body |-> NoBody]

\* imageUrls?.length
ImageCount(b) == IF b.imageUrls.t = "arr" THEN Len(b.imageUrls.f) ELSE 0

-----------------------------------------------------------------------------
(* Results of a step of the handler: a value, or an exception thrown into  *)
(* the handler's catch-all.                                                *)

Threw(message) == [threw |-> TRUE, error |-> message, value |-> undefined]
Returned(v) == [threw |-> FALSE, error |-> "", value |-> v]

-----------------------------------------------------------------------------
(* The store as the handler's service-role client sees it *)

Users == {"u1", "u2"}

\* Rows of public.memories: note i is created at time i; odd notes are
\* u1's, even ones u2's; content is nullable and may be empty.
MemoryRow(i) ==
    [id |-> i,
     user_id |-> IF i % 2 = 1 THEN "u1" ELSE "u2",
     kind |-> IF i % 3 = 0 THEN "pattern" ELSE "note",
     content |-> CASE i = 3 -> Str("")
                   [] i = 7 -> null
                   [] OTHER -> Str("note " \o ToString(i)),
     created_at |-> i]

MemoryTables == {{MemoryRow(i) : i \in 1..n} : n \in {0, 2, MaxNotes}}

Bool(b) == J("bool", IF b THEN "true" ELSE "false")

SettingsTables ==
    { {},
      {[id |-> "s1", user_id |-> "u1", trading_experience |-> Str("Advanced"),
        trading_style |-> Str("Swing Trading"), risk_level |-> Str("Aggressive"),
        remember_patterns |-> Bool(TRUE)]},
      {[id |-> "s1", user_id |-> "u1", trading_experience |-> null,
        trading_style |-> Str(""), risk_level |-> Str("Conservative"),
        remember_patterns |-> Bool(FALSE)]} }

ConversationRows == {[id |-> "c1", user_id |-> "u1"]}

-----------------------------------------------------------------------------
(* Queries of the supabase client *)

\* .order('created_at', { ascending: false })
RECURSIVE OrderDesc(_)
OrderDesc(rows) ==
    IF rows = {} THEN <<>>
    ELSE LET newest == CHOOSE r \in rows : \A q \in rows : q.created_at <= r.created_at
         IN  <<newest>> \o OrderDesc(rows \ {newest})

\* A query without its limit.
Unlimited(rows, n) == rows

\* .limit(n)
Limit(rows, n) == SubSeq(rows, 1, IF Len(rows) < n THEN Len(rows) ELSE n)

LimitImproved == 5
LimitPart004 == 10

\* .eq(column, value).single(): the one matching row, or an error.
SingleFails(rows) == Cardinality(rows) # 1
Single(rows) == CHOOSE r \in rows : TRUE

-----------------------------------------------------------------------------
(* Personalization: the optional load of settings and memories *)

NoFault == [step |-> "none", mode |-> "none"]

\* The lookups each variant makes.  createClient can only throw; a query
\* either returns { error } or throws.
LookupSteps(v) ==
    CASE v = Part004 -> {"createClient", "memories"}
      [] v = Improved -> {"createClient", "conversations", "user_settings", "memories"}
      [] OTHER -> {}

Faults(v) ==
    {NoFault}
    \cup {[step |-> st, mode |-> "throw"] : st \in LookupSteps(v)}
    \cup {[step |-> st, mode |-> "error"] : st \in LookupSteps(v) \ {"createClient"}}

Fails(f, step) == f.step = step
Throws(f, step) == f.step = step /\ f.mode = "throw"

\* A gate that opens on either condition alone.
GatedEither(b) == b.useMemory \/ Truthy(b.conversationId)

\* if (useMemory && conversationId) / if (conversationId && useMemory)
Gated(b) == b.useMemory /\ Truthy(b.conversationId)

Nothing ==
    [threw |-> FALSE, reads |-> <<>>, userSettings |-> null, memoryData |-> <<>>,
     memories |-> <<>>]

\* part_004: memories of every user, newest first, at most ten,
\* each as `(${m.kind}) ${m.content}`.
LoadPart004(b, f) ==
    IF ~Gated(b) THEN Nothing
    ELSE IF Throws(f, "createClient") THEN [Nothing EXCEPT !.threw = TRUE]
    ELSE IF Throws(f, "memories")
        THEN [Nothing EXCEPT !.threw = TRUE, !.reads = <<"memories">>]
    ELSE IF Fails(f, "memories") THEN [Nothing EXCEPT !.reads = <<"memories">>]
    ELSE LET data == Limit(OrderDesc(memoriesTable), LimitPart004)
         IN  [Nothing EXCEPT
                !.reads = <<"memories">>,
                !.memoryData = data,
                !.memories = [i \in 1..Len(data) |->
                                "(" \o data[i].kind \o ") " \o data[i].content.s]]

\* userSettings?.remember_patterns !== false
RemembersPatterns(settings) ==
    IF IsNullish(settings) THEN TRUE ELSE settings.value.remember_patterns # Bool(FALSE)

\* memoryData.filter(m => m.content).map(m => m.content!)
RECURSIVE ContentsOf(_)
ContentsOf(rows) ==
    IF rows = <<>> THEN <<>>
    ELSE (IF Truthy(Head(rows).content) THEN <<Head(rows).content.s>> ELSE <<>>)
         \o ContentsOf(Tail(rows))

\* analyze-improved: the conversation's owner, the owner's settings, then
\* the owner's five newest memories unless remember_patterns is false.
LoadImproved(b, f) ==
    IF ~Gated(b) THEN Nothing
    ELSE IF Throws(f, "createClient") THEN [Nothing EXCEPT !.threw = TRUE]
    ELSE LET convRows == {c \in conversations : c.id = b.conversationId.s}
             r1 == [Nothing EXCEPT !.reads = <<"conversations">>]
         IN
         IF Throws(f, "conversations") THEN [r1 EXCEPT !.threw = TRUE]
         ELSE IF Fails(f, "conversations") \/ SingleFails(convRows) THEN r1
         ELSE LET owner == Single(convRows).user_id
                  setRows == {u \in user_settings : u.user_id = owner}
                  r2 == [r1 EXCEPT !.reads = <<"conversations", "user_settings">>]
              IN
              IF Throws(f, "user_settings") THEN [r2 EXCEPT !.threw = TRUE]
              ELSE LET settings ==
                           IF Fails(f, "user_settings") \/ SingleFails(setRows)
                               THEN null
                               ELSE [t |-> "obj", s |-> "", f |-> NoProps,
                                     value |-> Single(setRows)]
                       r3 == [r2 EXCEPT !.userSettings = settings]
                       r4 == [r3 EXCEPT
                                !.reads = <<"conversations", "user_settings", "memories">>]
                       data == Limit(OrderDesc({m \in memoriesTable : m.user_id = owner}),
                                     LimitImproved)
                   IN
                   IF ~RemembersPatterns(settings) THEN r3
                   ELSE IF Throws(f, "memories") THEN [r4 EXCEPT !.threw = TRUE]
                   ELSE IF Fails(f, "memories") THEN r4
                   ELSE [r4 EXCEPT
                           !.memoryData = data,
                           !.memories = ContentsOf(data)]

LoadUserData(v, b, f) ==
    CASE v = Part004 -> LoadPart004(b, f)
      [] v = Improved -> LoadImproved(b, f)
      [] OTHER -> Nothing

\* A lookup whose exception escapes the handler's inner try.
Rethrown(outcome) == outcome

\* } catch (error) { console.log(...) }: the exception is logged and dropped.
Swallowed(outcome) == [outcome EXCEPT !.threw = FALSE]

Personalization(v, b, f) == Swallowed(LoadUserData(v, b, f))

LookupFailureMessage == "fetch failed"

-----------------------------------------------------------------------------
(* The system prompt: a sequence of lines, a line a sequence of pieces *)

Line(text) == <<text>>
Blank == <<"">>

\* `- ${m}`
NoteLine(m) == <<"- ", m>>

\* A builder that lists the notes last-to-first.
NoteLinesReversed(notes) == [i \in 1..Len(notes) |-> NoteLine(notes[Len(notes) + 1 - i])]

\* memories.map(m => `- ${m}`).join('\n')
NoteLines(notes) == [i \in 1..Len(notes) |-> NoteLine(notes[i])]

DetailedPersonaPart004 ==
    << Line("You are an experienced trading coach and mentor. Respond in a natural, conversational way like you're chatting with a fellow trader over coffee."),
       Blank,
       Line("The user may share screenshots, stats, notes, news, or free-form thoughts. Treat every message as part of an ongoing conversation."),
       Blank,
       Line("Your role: act like a seasoned mentor who's been in the markets for years. Be direct, honest, and supportive. Share insights, point out risks, and discuss scenarios naturally. Add coaching notes about psychology or performance when it feels right."),
       Blank,
       Line("Never promise profit or certainty. If unclear, ask for clarification.") >>

QuickPersonaPart004 ==
    << Line("You are an experienced trading coach and mentor. Respond in a natural, conversational way like you're chatting with a fellow trader."),
       Blank,
       Line("Be direct, friendly, and supportive. Keep responses concise but helpful. Share quick insights or ask follow-up questions. Act like you're having a casual conversation about trading."),
       Blank,
       Line("Never promise profit or certainty.") >>

RecapHeadingPart004 == Line("What I know about your trading style:")

\* if (memories && memories.length > 0) prompt += `\n\nWhat I know ...:\n${...}`
RecapPart004(notes) ==
    IF Len(notes) > 0 THEN <<Blank, RecapHeadingPart004>> \o NoteLines(notes) ELSE <<>>

ExpandedSchemaPart004 ==
    << Blank,
       Line("Provide both a natural conversational response AND structured analysis. Respond with a JSON object:"),
       Line("{"),
       Line("  \"narrative\": \"Main conversational feedback (always required)\","),
       Line("  \"confluences\": [\"Technical confluences or positive signals if any\"] (optional),"),
       Line("  \"risks\": [\"Key risks or concerns to watch\"] (optional),"),
       Line("  \"scenarios\": {"),
       Line("    \"bull\": \"Bullish scenario description\","),
       Line("    \"bear\": \"Bearish scenario description\", "),
       Line("    \"invalidation\": \"What would invalidate the current setup\""),
       Line("  } (optional),"),
       Line("  \"checklist\": [\"3-5 actionable next steps\"] (optional),"),
       Line("  \"psychology_hint\": \"Optional mindset or psychology coaching note\","),
       Line("  \"memory_hint\": \"Optional note about patterns or style observations\""),
       Line("}") >>

MinimalSchemaPart004 ==
    << Blank,
       Line("Respond with a JSON object containing only:"),
       Line("{"),
       Line("  \"narrative\": \"Natural conversational response\","),
       Line("  \"memory_hint\": \"Optional note about patterns or style observations\""),
       Line("}") >>

buildSystemPrompt(notes, requestAnalysis) ==
    IF requestAnalysis
        THEN DetailedPersonaPart004 \o RecapPart004(notes) \o ExpandedSchemaPart004
        ELSE QuickPersonaPart004 \o RecapPart004(notes) \o MinimalSchemaPart004

\* x || 'fallback' inside a template literal
OrDefault(v, fallback) == IF Truthy(v) THEN v.s ELSE fallback

PersonaImproved == <<"You are an experienced trading coach. ">>

\* if (userSettings) systemPrompt += `You're working with a ... risk tolerance. `
SettingsSentence(settings) ==
    IF Truthy(settings)
        THEN << "You're working with a ",
                OrDefault(settings.value.trading_experience, "intermediate"),
                " trader who prefers ",
                OrDefault(settings.value.trading_style, "day trading"),
                " with ",
                OrDefault(settings.value.risk_level, "moderate"),
                " risk tolerance. " >>
        ELSE <<>>

RecapHeadingImproved == Line("What you remember about this trader:")

ExpandedLeadImproved == <<"Provide detailed trading analysis. Always respond with valid JSON:">>

ExpandedSchemaImproved ==
    << Line("{"),
       Line("  \"narrative\": \"Your detailed trading analysis and advice\","),
       Line("  \"confluences\": [\"Positive technical signals if any\"],"),
       Line("  \"risks\": [\"Key risks to watch\"],"),
       Line("  \"scenarios\": {\"bull\": \"Bullish scenario\", \"bear\": \"Bearish scenario\", \"invalidation\": \"What invalidates the setup\"},"),
       Line("  \"checklist\": [\"Action items for the trader\"],"),
       Line("  \"psychology_hint\": \"Trading psychology insight if relevant\","),
       Line("  \"memory_hint\": \"Key insight about this trader's style/preferences to remember - ALWAYS include this field\""),
       Line("}") >>

MinimalLeadImproved == <<"Provide conversational trading advice. Always respond with valid JSON:">>

MinimalSchemaImproved ==
    << Line("{"),
       Line("  \"narrative\": \"Your conversational trading advice\","),
       Line("  \"memory_hint\": \"Key insight about this trader's style/preferences to remember - ALWAYS include this field\""),
       Line("}") >>

FinalDirectiveImproved ==
    << Blank,
       Line("CRITICAL: Always include the memory_hint field. Use null if no specific insight.") >>

\* The prompt is grown with +=: the persona and the settings sentence share
\* the first line; with a recap the schema lead starts a line of its own,
\* without one it continues the first line.
SystemPromptImproved(settings, notes, requestAnalysis) ==
    LET first == PersonaImproved \o SettingsSentence(settings)
        lead == IF requestAnalysis THEN ExpandedLeadImproved ELSE MinimalLeadImproved
        schema == IF requestAnalysis THEN ExpandedSchemaImproved ELSE MinimalSchemaImproved
    IN  (IF Len(notes) > 0
            THEN <<first, Blank, RecapHeadingImproved>> \o NoteLines(notes)
                 \o <<Blank, lead>>
            ELSE <<first \o lead>>)
        \o schema \o FinalDirectiveImproved

SystemPromptMinimal ==
    << Line("You are a trading coach. Always respond with valid JSON in this exact format:"),
       Line("{"),
       Line("  \"narrative\": \"Your trading advice here\","),
       Line("  \"memory_hint\": \"Always include this field - write a trading insight or use null\""),
       Line("}"),
       Blank,
       Line("CRITICAL: You MUST include both narrative and memory_hint fields. Never omit memory_hint.") >>

NoPrompt == <<>>

\* messages[0] = { role: "system", content: ... }
SystemPrompt(v, b, data) ==
    CASE v = Part004 -> buildSystemPrompt(data.memories, b.requestAnalysis)
      [] v = Improved -> SystemPromptImproved(data.userSettings, data.memories, b.requestAnalysis)
      [] v = Minimal -> SystemPromptMinimal
      [] OTHER -> NoPrompt

-----------------------------------------------------------------------------
(* The outbound request: model choice and messages array *)

ModelPart004(b) == Gpt41Model
ModelImproved(b) == IF ImageCount(b) > 0 THEN VisionModel ELSE TextModel
ModelMinimal(b) == TextModel

UserText(text) == [role |-> "user", text |-> text, image |-> ""]
UserImage(text, url) == [role |-> "user", text |-> text, image |-> url]

MessagesPart004(b) ==
    (IF Truthy(b.contextText) THEN <<UserText(b.contextText.s)>> ELSE <<>>)
    \o [i \in 1..ImageCount(b) |-> UserImage("Attached image for analysis:", b.imageUrls.f[i])]

\* contextText || "Analyze this trading setup"
CurrentMessage(b) == IF Truthy(b.contextText) THEN b.contextText.s ELSE DefaultMessage

MessagesImproved(b) ==
    IF ImageCount(b) > 0
        THEN <<UserImage(CurrentMessage(b), b.imageUrls.f[1])>>
        ELSE <<UserText(CurrentMessage(b))>>

MessagesMinimal(b) == <<UserText(CurrentMessage(b))>>

\* `system` is messages[0]; `messages` holds the user turns after it.
NoFetchBody == [model |-> "", system |-> NoPrompt, messages |-> <<>>, max_tokens |-> 0]

FetchBody(v, b, data) ==
    CASE v = Part004 ->
           [model |-> ModelPart004(b), system |-> SystemPrompt(v, b, data),
            messages |-> MessagesPart004(b), max_tokens |-> 2000]
      [] v = Improved ->
           [model |-> ModelImproved(b), system |-> SystemPrompt(v, b, data),
            messages |-> MessagesImproved(b),
            max_tokens |-> IF b.requestAnalysis THEN 1500 ELSE 500]
      [] v = Minimal ->
           [model |-> ModelMinimal(b), system |-> SystemPrompt(v, b, data),
            messages |-> MessagesMinimal(b), max_tokens |-> 500]
      [] OTHER -> NoFetchBody

-----------------------------------------------------------------------------
(* What each variant does between reading the body and the fetch *)

\* if (!imageUrls?.length && !contextText) throw ...
ValidatesInput(v) == v \in {Part004, Stub}
FailsValidation(b) == ImageCount(b) = 0 /\ ~Truthy(b.contextText)

ChecksApiKey(v) == v \in {Part004, Improved, Minimal}

BeforeFetch(v, req, key) ==
    IF ~req.json THEN Threw(BodySyntaxError)
    ELSE IF ValidatesInput(v) /\ FailsValidation(req.body) THEN Threw(ValidationMessage)
    ELSE IF ChecksApiKey(v) /\ key = "" THEN Threw(KeyMessage)
    ELSE Returned(undefined)

-----------------------------------------------------------------------------
(* The provider's answers *)

ErrorText == "upstream failure"

\* ok: response.ok.  body: "choices" (a chat completion whose
\* choices[0].message.content is `content`), "nochoices" (JSON without a
\* choices array), "notjson" (a body response.json() cannot parse), "text"
\* (the error text of a non-success answer).
Completions ==
    {[ok |-> FALSE, status |-> st, body |-> "text", content |-> undefined] : st \in {429, 500}}
    \cup {[ok |-> TRUE, status |-> 200, body |-> k, content |-> undefined] :
            k \in {"nochoices", "notjson"}}
    \cup {[ok |-> TRUE, status |-> 200, body |-> "choices", content |-> c] :
            c \in {null} \cup {Str(raw) : raw \in RawTexts}}

NoCompletion == [ok |-> FALSE, status |-> 0, body |-> "", content |-> undefined]

\* throw new Error(`OpenAI API error: ${response.status} ...`)
ProviderErrorMessage(v, c) ==
    IF v = Part004
        THEN "OpenAI API error: " \o ToString(c.status) \o " " \o ErrorText
        ELSE "OpenAI API error: " \o ToString(c.status)

\* await response.json(); data.choices[0].message?.content ?? ""
RawContent(c) ==
    CASE c.body = "notjson" -> Threw(ProviderSyntaxError)
      [] c.body = "nochoices" -> Threw(ChoicesTypeError)
      [] OTHER -> Returned(IF IsNullish(c.content) THEN Str("") ELSE c.content)

-----------------------------------------------------------------------------
(* Normalization: JSON.parse with its catch, then the back-filling of      *)
(* required fields.  rawContent is a string.                               *)

FallbackPart004(rawContent) ==
    Obj([narrative |-> Str(rawContent), confluences |-> Arr("[]"), risks |-> Arr("[]"),
         scenarios |-> EmptyScenarios, checklist |-> Arr("[]")])

FallbackImproved(rawContent) ==
    Obj([narrative |-> Str(FormattingNarrative), memory_hint |-> Str(ParsingHint)])

FallbackMinimal(rawContent) ==
    Obj([narrative |-> Str(JsonFormattingNarrative), memory_hint |-> Str(JsonParsingHint)])

\* try { feedback = JSON.parse(rawContent) } catch { feedback = fallback }
ParseOr(rawContent, fallback) ==
    IF ParseThrows(rawContent) THEN fallback ELSE JSONparse(rawContent)

\* if (!feedback.narrative) feedback.narrative = rawContent
NormalizePart004(rawContent) ==
    LET feedback == ParseOr(rawContent, FallbackPart004(rawContent))
    IN  IF GetThrows(feedback) THEN Threw(ReadTypeError)
        ELSE IF Truthy(Get(feedback, "narrative")) THEN Returned(feedback)
        ELSE IF SetThrows(feedback) THEN Threw(CreateTypeError)
        ELSE Returned(Set(feedback, "narrative", Str(rawContent)))

\* if (!feedback.hasOwnProperty('memory_hint')) feedback.memory_hint = default
NormalizeImproved(rawContent) ==
    LET feedback == ParseOr(rawContent, FallbackImproved(rawContent))
    IN  IF HasOwnThrows(feedback) THEN Threw(ReadTypeError)
        ELSE IF HasOwn(feedback, "memory_hint") THEN Returned(feedback)
        ELSE IF SetThrows(feedback) THEN Threw(CreateTypeError)
        ELSE Returned(Set(feedback, "memory_hint", Str(DefaultHint)))

\* if (!feedback.memory_hint) feedback.memory_hint = default
NormalizeMinimal(rawContent) ==
    LET feedback == ParseOr(rawContent, FallbackMinimal(rawContent))
    IN  IF GetThrows(feedback) THEN Threw(ReadTypeError)
        ELSE IF Truthy(Get(feedback, "memory_hint")) THEN Returned(feedback)
        ELSE IF SetThrows(feedback) THEN Threw(CreateTypeError)
        ELSE Returned(Set(feedback, "memory_hint", Str(DefaultHint)))

Normalize(v, rawContent) ==
    CASE v = Part004 -> NormalizePart004(rawContent)
      [] v = Improved -> NormalizeImproved(rawContent)
      [] OTHER -> NormalizeMinimal(rawContent)

\* The canned feedback of the deployed function.
StubFeedback(b) ==
    IF b.requestAnalysis
        THEN Obj([narrative |-> Str("I can see you're looking at the Micro E-mini Nasdaq-100 futures chart."),
                  confluences |-> Arr("[3 items]"), risks |-> Arr("[3 items]"),
                  scenarios |-> J("obj", "{bull,bear,invalidation}"),
                  checklist |-> Arr("[4 items]"),
                  psychology_hint |-> Str("Don't chase breakouts without confirmation")])
        ELSE Obj([narrative |-> Str("Looking at this chart, I see some interesting price action.")])

-----------------------------------------------------------------------------
(* Responses *)

NoReply == [status |-> 0, error |-> undefined, feedback |-> undefined, latency_ms |-> FALSE]

\* new Response(null, { headers: corsHeaders })
PreflightReply == [status |-> 200, error |-> undefined, feedback |-> undefined, latency_ms |-> FALSE]

\* new Response(JSON.stringify({ feedback, latency_ms }), { headers })
SuccessReply(v, feedback) ==
    [status |-> 200, error |-> undefined, feedback |-> Stringify(feedback),
     latency_ms |-> (v # Minimal)]

ErrorStatus(v) == 500

\* The feedback object of the catch-all.
ErrorFeedback(v, message) ==
    IF v \in {Part004, Stub}
        THEN Obj([narrative |-> Str(ApologyNarrative), confluences |-> Arr("[]"),
                  risks |-> Arr("[\"Technical analysis temporarily unavailable\"]"),
                  scenarios |-> EmptyScenarios,
                  checklist |-> Arr("[\"Try submitting your analysis request again\"]")])
        ELSE Obj([narrative |-> Str("Error occurred: " \o message),
                  memory_hint |-> Str(ErrorHint)])

\* catch (error) { return new Response(JSON.stringify({ error: error.message, feedback }), { status: 500 }) }
ErrorReply(v, message) ==
    [status |-> ErrorStatus(v), error |-> Str(message),
     feedback |-> Stringify(ErrorFeedback(v, message)), latency_ms |-> FALSE]

\* The handler after the fetch resolved: status check, body, normalization.
AfterFetch(v, c) ==
    IF ~c.ok THEN Threw(ProviderErrorMessage(v, c))
    ELSE IF RawContent(c).threw THEN RawContent(c)
    ELSE Normalize(v, RawContent(c).value.s)

-----------------------------------------------------------------------------
(* The state machine *)

ApiKeys == {"", "sk-test"}

NoSend == [text |-> "", imageUrl |-> "", requestAnalysis |-> FALSE]

\* The chat page as mounted, before any send.
ChatMounted ==
    /\ chatPc = "idle"
    /\ sending = NoSend
    /\ retryCount = 0
    /\ invocations = <<>>
    /\ delays = <<>>
    /\ writes = <<>>
    /\ toasts = <<>>
    /\ isLoading = FALSE
    /\ showSaveModal = FALSE
    /\ sends = 0

NoSession == "anon"

\* No database session at work.
DbIdle ==
    /\ messages = {}
    /\ trades = {}
    /\ session = NoSession
    /\ returned = {}
    /\ affected = {}

NoStats == [total |-> 0, wins |-> 0, losses |-> 0, unknown |-> 0,
            winRate |-> <<0, 1>>, avgRR |-> <<0, 1>>]

\* useAudioRecorder as mounted.
RecorderMounted ==
    /\ isRecording = FALSE
    /\ mediaRecorderRef = 0
    /\ intervalRef = 0
    /\ recorders = {}
    /\ timers = {}
    /\ pendingStarts = 0
    /\ uploads = 0
    /\ stopResult = "none"
    /\ lastCall = "none"
    /\ starts = 0

\* ChatComposer as mounted.
ComposerMounted ==
    /\ composerMessage = ""
    /\ uploadedImage = ""
    /\ inFlight = <<>>

Part007 == "part_007"
ChatTsx == "pages/Chat.tsx"

\* The components no request, send or statement touches.
Aside ==
    /\ stats = NoStats
    /\ objects = {}
    /\ RecorderMounted
    /\ ComposerMounted

Init ==
    /\ variant \in Variants
    /\ openAIApiKey \in ApiKeys
    /\ pc = "idle"
    /\ request = NoRequest
    /\ fetchCalls = 0
    /\ fetchLog = <<>>
    /\ fetchBody = NoFetchBody
    /\ completion = NoCompletion
    /\ reply = NoReply
    /\ conversations = ConversationRows
    /\ user_settings \in SettingsTables
    /\ memoriesTable \in MemoryTables
    /\ fault = NoFault
    /\ storeReads = <<>>
    /\ userSettings = null
    /\ memoryData = <<>>
    /\ memories = <<>>
    /\ ChatMounted
    /\ useMemory = TRUE
    /\ conversationId = null
    /\ DbIdle
    /\ page = Part007
    /\ Aside

\* A handler that fetches again (a retry, a duplicated await).
IssueFetchTwice(n) == n + 2

\* await fetch('https://api.openai.com/v1/chat/completions', ...)
IssueFetch(n) == n + 1

\* What the personalization step left in the handler's locals.
Loaded(f, data) ==
    /\ fault' = f
    /\ storeReads' = data.reads
    /\ userSettings' = data.userSettings
    /\ memoryData' = data.memoryData
    /\ memories' = data.memories

\* A lookup can only fail in a request that makes lookups.
FaultsOf(v, b) == IF Gated(b) THEN Faults(v) ELSE {NoFault}

\* if (req.method === 'OPTIONS') return new Response(null, ...)
Preflight ==
    /\ pc = "idle"
    /\ \E req \in Requests :
        /\ req.method = "OPTIONS"
        /\ request' = req
    /\ reply' = PreflightReply
    /\ pc' = "done"
    /\ UNCHANGED <<variant, openAIApiKey, fetchCalls, fetchLog, fetchBody, completion,
                   tables, loaded, chat, db, page, aside>>

\* The deployed function: validation, then a canned feedback; no fetch.
ServeStub ==
    /\ pc = "idle"
    /\ variant = Stub
    /\ \E req \in Requests :
        /\ req.method = "POST"
        /\ request' = req
        /\ reply' = IF BeforeFetch(variant, req, openAIApiKey).threw
                        THEN ErrorReply(variant, BeforeFetch(variant, req, openAIApiKey).error)
                        ELSE SuccessReply(variant, StubFeedback(req.body))
    /\ pc' = "done"
    /\ UNCHANGED <<variant, openAIApiKey, fetchCalls, fetchLog, fetchBody, completion,
                   tables, loaded, chat, db, page, aside>>

\* A throw before the fetch lands in the catch-all: from the body, the
\* validation or the key check, or from a lookup whose exception escaped.
Reject ==
    /\ pc = "idle"
    /\ variant # Stub
    /\ \E req \in Requests :
        /\ req.method = "POST"
        /\ request' = req
        /\ IF BeforeFetch(variant, req, openAIApiKey).threw
               THEN /\ reply' = ErrorReply(variant, BeforeFetch(variant, req, openAIApiKey).error)
                    /\ UNCHANGED loaded
               ELSE \E f \in FaultsOf(variant, req.body) :
                      /\ Personalization(variant, req.body, f).threw
                      /\ reply' = ErrorReply(variant, LookupFailureMessage)
                      /\ Loaded(f, Personalization(variant, req.body, f))
    /\ pc' = "done"
    /\ UNCHANGED <<variant, openAIApiKey, fetchCalls, fetchLog, fetchBody, completion, tables,
                   chat, db, page, aside>>

\* The handler runs up to its await of the provider call: the optional
\* lookups, the prompt, the messages, the fetch.
CallProvider ==
    /\ pc = "idle"
    /\ variant # Stub
    /\ \E req \in Requests :
        /\ req.method = "POST"
        /\ ~BeforeFetch(variant, req, openAIApiKey).threw
        /\ request' = req
        /\ \E f \in FaultsOf(variant, req.body) :
            /\ ~Personalization(variant, req.body, f).threw
            /\ Loaded(f, Personalization(variant, req.body, f))
            /\ fetchBody' = FetchBody(variant, req.body, Personalization(variant, req.body, f))
    /\ fetchCalls' = IssueFetch(fetchCalls)
    /\ pc' = "awaitFetch"
    /\ UNCHANGED <<variant, openAIApiKey, fetchLog, completion, reply, tables,
                   chat, db, page, aside>>

\* The fetch resolves and the handler runs to its return or its catch-all.
Respond ==
    /\ pc = "awaitFetch"
    /\ \E c \in Completions :
        /\ completion' = c
        /\ fetchLog' = Append(fetchLog, c.ok)
        /\ reply' = IF AfterFetch(variant, c).threw
                        THEN ErrorReply(variant, AfterFetch(variant, c).error)
                        ELSE SuccessReply(variant, AfterFetch(variant, c).value)
    /\ pc' = "done"
    /\ UNCHANGED <<variant, openAIApiKey, request, fetchCalls, fetchBody, tables, loaded,
                   chat, db, page, aside>>

\* The response is sent; the function serves its next request.
NextRequest ==
    /\ pc = "done"
    /\ pc' = "idle"
    /\ request' = NoRequest
    /\ fetchCalls' = 0
    /\ fetchLog' = <<>>
    /\ fetchBody' = NoFetchBody
    /\ completion' = NoCompletion
    /\ reply' = NoReply
    /\ Loaded(NoFault, Nothing)
    /\ UNCHANGED <<variant, openAIApiKey, tables, chat, db, page, aside>>

Next ==
    \/ Preflight
    \/ ServeStub
    \/ Reject
    \/ CallProvider
    \/ Respond
    \/ NextRequest

Spec == Init /\ [][Next]_vars

-----------------------------------------------------------------------------
(* The chat page: handleSendMessage and its retry of the analyze call *)

MaxSends == 2

maxRetries == 2

\* The deployed function at rest, while another component is at work.
HandlerIdle ==
    /\ variant = Stub
    /\ openAIApiKey = ""
    /\ pc = "idle"
    /\ request = NoRequest
    /\ fetchCalls = 0
    /\ fetchLog = <<>>
    /\ fetchBody = NoFetchBody
    /\ completion = NoCompletion
    /\ reply = NoReply
    /\ fault = NoFault
    /\ storeReads = <<>>
    /\ userSettings = null
    /\ memoryData = <<>>
    /\ memories = <<>>

Texts == {"", "   ", "NQ long?"}
ImageUrls == {"", "https://img/1.png"}

\* text.trim()
Trim(text) == IF text = "   " THEN "" ELSE text

SendArgs == [text : Texts, imageUrl : ImageUrls, requestAnalysis : BOOLEAN]

\* A guard that forgets the trim.
NothingTyped(args) == args.text = "" /\ args.imageUrl = ""

\* if (!text.trim() && !imageUrl) return
NothingToSend(args) == Trim(args.text) = "" /\ args.imageUrl = ""

Insight == "Prefers NQ breakouts"

\* What the analyze function puts under `feedback` in a 200 response: an
\* object with or without memory_hint, or whatever else JSON.parse gave.
Feedbacks ==
    {Obj([k \in {"narrative"} |-> Str("Looks extended.")]),
     Obj([k \in {"narrative", "risks"} |-> Str("Looks extended.")]),
     Arr("[]")}
    \cup {Obj([k \in {"narrative", "memory_hint"} |->
                 IF k = "narrative" THEN Str("Looks extended.") ELSE hint]) :
            hint \in {null, Str(""), Str(Insight), Num("0"), Num("42")}}

\* supabase.functions.invoke: { data, error }; error for a non-2xx answer
\* or a failed request.
InvokeResults ==
    {[error |-> TRUE, feedback |-> undefined], [error |-> FALSE, feedback |-> undefined]}
    \cup {[error |-> FALSE, feedback |-> fb] : fb \in Feedbacks}

\* A saveMessage that inserts its row twice.
SaveMessageWritesTwice(role, content) ==
    IF Truthy(conversationId)
        THEN <<[table |-> "messages", role |-> role, content |-> content,
                useMemory |-> useMemory],
               [table |-> "messages", role |-> role, content |-> content,
                useMemory |-> useMemory]>>
        ELSE <<>>

\* saveMessage: no insert without a conversation, only a toast.
SaveMessageWrites(role, content) ==
    IF Truthy(conversationId)
        THEN <<[table |-> "messages", role |-> role, content |-> content,
                useMemory |-> useMemory]>>
        ELSE <<>>

SaveMessageToasts == IF Truthy(conversationId) THEN <<>> ELSE <<"No active conversation">>

\* A memory check that looks at the toggle alone.
ShouldSaveMemoryWhenOn(analysis, toggle) == toggle

\* if (analysis.memory_hint && analysis.memory_hint !== null && useMemory)
ShouldSaveMemory(analysis, toggle) ==
    /\ Truthy(Get(analysis, "memory_hint"))
    /\ Get(analysis, "memory_hint") # null
    /\ toggle

\* A TEXT column stores the text of what it is given; null stays null.
ToText(v) == IF IsNullish(v) THEN null ELSE Str(v.s)

\* saveMemory's insert of { user_id, kind, content }
MemoryInsert(content) ==
    LET n == Cardinality(memoriesTable) + 1
    IN  [id |-> n, user_id |-> "u1", kind |-> "note", content |-> ToText(content),
         created_at |-> n]

\* A retry that waits the same time before every attempt.
BackoffFlat(n) == 1000

\* setTimeout(resolve, 1000 * retryCount)
Backoff(n) == 1000 * n

\* body: { imageUrls: imageUrl ? [imageUrl] : undefined,
\*         contextText: text.trim() || undefined, ... }
\* and on pages/Chat.tsx the same two properties, set only when there is
\* an image and when the trimmed message is not empty.
InvokeBody(args) ==
    [imageUrls |-> IF args.imageUrl # "" THEN Arr(args.imageUrl) ELSE undefined,
     contextText |-> IF Trim(args.text) # "" THEN Str(Trim(args.text)) ELSE undefined]

\* A page that leaves the flag as it is when the call ends.
FinallySkipped(loading) == loading

\* finally { setIsLoading(false) }; finally { setIsAnalyzing(false) }
Finally(loading) == FALSE

\* requestAnalysis && (analysis.confluences || analysis.risks || analysis.scenarios)
OffersSaveTrade(args, analysis) ==
    /\ args.requestAnalysis
    /\ \E k \in {"confluences", "risks", "scenarios"} : Truthy(Get(analysis, k))

ChatInit ==
    /\ HandlerIdle
    /\ conversations = ConversationRows
    /\ user_settings = {}
    /\ memoriesTable = {}
    /\ ChatMounted
    /\ useMemory = TRUE
    /\ conversationId \in {null, Str("c1")}
    /\ DbIdle
    /\ page \in {Part007, ChatTsx}
    /\ Aside

elsewhere == <<handler, conversations, user_settings, db, page, aside>>

\* onCheckedChange={setUseMemory}
ToggleMemory ==
    /\ chatPc = "idle"
    /\ useMemory' = ~useMemory
    /\ UNCHANGED <<chatPc, sending, conversationId, retryCount, invocations, delays,
                   writes, toasts, isLoading, showSaveModal, sends, memoriesTable,
                   elsewhere>>

\* handleSendMessage (part_007) and handleSend (pages/Chat.tsx) up to the
\* first invocation: the guard, and on part_007 the user message and
\* retryCount = 0.  A call the guard turns away leaves the page as it was;
\* the model starts the logs of the call afresh all the same.
HandleSendMessage ==
    /\ chatPc = "idle"
    /\ sends < MaxSends
    /\ \E args \in SendArgs :
        /\ page = ChatTsx => ~args.requestAnalysis
        /\ sending' = args
        /\ sends' = sends + 1
        /\ retryCount' = 0
        /\ invocations' = <<>>
        /\ delays' = <<>>
        /\ IF NothingToSend(args)
            THEN /\ writes' = <<>>
                 /\ toasts' = <<>>
                 /\ UNCHANGED <<chatPc, isLoading>>
            ELSE /\ isLoading' = TRUE
                 /\ writes' = IF page = Part007
                                 THEN SaveMessageWrites("user", Str(args.text))
                                 ELSE <<>>
                 /\ toasts' = IF page = Part007 THEN SaveMessageToasts ELSE <<>>
                 /\ chatPc' = "invoking"
    /\ UNCHANGED <<useMemory, conversationId, showSaveModal, memoriesTable, elsewhere>>

\* handleSend of pages/Chat.tsx from the invocation on: one invocation, a
\* toast either way, and the finally.
InvokeOnce(res) ==
    /\ invocations' = Append(invocations, IF res.error THEN "error" ELSE "ok")
    /\ toasts' = Append(toasts, IF res.error THEN "Analysis Error" ELSE "Analysis Complete")
    /\ isLoading' = Finally(isLoading)
    /\ chatPc' = "idle"
    /\ UNCHANGED <<retryCount, delays, writes, showSaveModal, memoriesTable>>

\* One pass of the while loop: the invocation, then either the saves, the
\* toast and the return, or the catch with its retryCount++ and its wait.
\* `analysis.narrative` of a response without feedback throws into the
\* same catch.
Invoke ==
    /\ chatPc = "invoking"
    /\ \E res \in InvokeResults, stored \in BOOLEAN :
        IF page = ChatTsx
            THEN InvokeOnce(res)
            ELSE
        IF res.error \/ GetThrows(res.feedback)
            THEN /\ invocations' = Append(invocations, "error")
                 /\ retryCount' = retryCount + 1
                 /\ IF retryCount + 1 <= maxRetries
                        THEN /\ delays' = Append(delays, Backoff(retryCount + 1))
                             /\ chatPc' = "backoff"
                             /\ UNCHANGED <<toasts, isLoading>>
                        ELSE /\ toasts' = Append(toasts, "Error")
                             /\ isLoading' = Finally(isLoading)
                             /\ chatPc' = "idle"
                             /\ UNCHANGED delays
                 /\ UNCHANGED <<writes, showSaveModal, memoriesTable>>
            ELSE LET analysis == res.feedback
                     saves == ShouldSaveMemory(analysis, useMemory)
                     hint == Get(analysis, "memory_hint")
                 IN  /\ invocations' = Append(invocations, "ok")
                     /\ writes' = writes
                            \o SaveMessageWrites("ai", Get(analysis, "narrative"))
                            \o (IF saves
                                  THEN <<[table |-> "memories", role |-> "note",
                                          content |-> hint, useMemory |-> useMemory]>>
                                  ELSE <<>>)
                     /\ memoriesTable' = IF saves /\ stored
                                            THEN memoriesTable \cup {MemoryInsert(hint)}
                                            ELSE memoriesTable
                     /\ showSaveModal' = (showSaveModal \/ OffersSaveTrade(sending, analysis))
                     /\ toasts' = toasts \o SaveMessageToasts \o <<"Response received">>
                     /\ isLoading' = Finally(isLoading)
                     /\ chatPc' = "idle"
                     /\ UNCHANGED <<retryCount, delays>>
    /\ UNCHANGED <<sending, useMemory, conversationId, sends, elsewhere>>

\* The timer of the wait fires and the loop goes round.
Retry ==
    /\ chatPc = "backoff"
    /\ chatPc' = "invoking"
    /\ UNCHANGED <<sending, useMemory, conversationId, retryCount, invocations, delays,
                   writes, toasts, isLoading, showSaveModal, sends, memoriesTable,
                   elsewhere>>

ChatNext ==
    \/ ToggleMemory
    \/ HandleSendMessage
    \/ Invoke
    \/ Retry

ChatSpec == ChatInit /\ [][ChatNext]_vars

\* Every awaited call returns or rejects, and every timer set fires.
ChatFairSpec == ChatSpec /\ WF_vars(Invoke) /\ WF_vars(Retry)

-----------------------------------------------------------------------------
(* The database: tables, foreign keys and row-level security *)

NullRef == "NULL"
NoOwner == "nobody"

TableNames == {"conversations", "messages", "trades", "memories", "user_settings"}

\* The five tables as one value.
Database ==
    [conversations |-> conversations, messages |-> messages, trades |-> trades,
     memories |-> memoriesTable, user_settings |-> user_settings]

ConversationKeys == {"c1", "c2"}
SettingsKeys == {"s1", "s2"}

\* What the Settings page edits: a column of texts and the memory switch.
SettingsValues ==
    {[trading_experience |-> Str("Intermediate"), trading_style |-> Str("Day Trading"),
      risk_level |-> Str(r), remember_patterns |-> Bool(r = "Moderate")] :
        r \in {"Moderate", "Aggressive"}}

SettingsRow(id, u, values) ==
    [id |-> id, user_id |-> u, trading_experience |-> values.trading_experience,
     trading_style |-> values.trading_style, risk_level |-> values.risk_level,
     remember_patterns |-> values.remember_patterns]

\* The rows a client may offer to a table.
Rows(t) ==
    CASE t = "conversations" -> [id : ConversationKeys, user_id : Users]
      [] t = "messages" -> [id : {"m1"}, conversation_id : ConversationKeys]
      [] t = "trades" ->
           [id : {"t1"}, user_id : Users, conversation_id : ConversationKeys \cup {NullRef},
            message_id : {"m1", NullRef}]
      [] t = "memories" -> {[MemoryRow(1) EXCEPT !.user_id = u] : u \in Users}
      [] OTHER -> {SettingsRow(id, u, v) : id \in SettingsKeys, u \in Users, v \in SettingsValues}

Keys(rows) == {r.id : r \in rows}

\* The user a row belongs to: its user_id, and for a message the user_id
\* of its conversation.
Owner(D, t, r) ==
    IF t = "messages"
        THEN IF \E c \in D.conversations : c.id = r.conversation_id
               THEN (CHOOSE c \in D.conversations : c.id = r.conversation_id).user_id
               ELSE NoOwner
        ELSE r.user_id

\* USING and WITH CHECK of every policy: auth.uid() = user_id, or for
\* messages EXISTS (the conversation with user_id = auth.uid()).  An UPDATE
\* policy without WITH CHECK applies its USING to the new row.
Policy(D, t, uid, r) == uid \in Users /\ Owner(D, t, r) = uid

\* PRIMARY KEY, UNIQUE(user_id) and REFERENCES; none of them is subject to
\* row-level security.
Constraints(D, t, r) ==
    /\ r.id \notin Keys(D[t])
    /\ t = "user_settings" => \A q \in D[t] : q.user_id # r.user_id
    /\ t = "messages" => r.conversation_id \in Keys(D.conversations)
    /\ t = "trades" =>
         /\ r.conversation_id \in Keys(D.conversations) \cup {NullRef}
         /\ r.message_id \in Keys(D.messages) \cup {NullRef}

Without(D, t, r) == [D EXCEPT ![t] = D[t] \ {r}]
With(D, t, r) == [D EXCEPT ![t] = D[t] \cup {r}]

\* ON DELETE CASCADE from conversations to messages.
CascadedMessages(D, t, r) ==
    IF t = "conversations" THEN {m \in D.messages : m.conversation_id = r.id} ELSE {}

\* ON DELETE SET NULL on trades.conversation_id and trades.message_id.
Nulled(D, t, r, trade) ==
    LET gone == IF t = "messages" THEN {r.id} ELSE Keys(CascadedMessages(D, t, r))
    IN  [trade EXCEPT
           !.conversation_id =
               IF t = "conversations" /\ @ = r.id THEN NullRef ELSE @,
           !.message_id = IF @ \in gone THEN NullRef ELSE @]

\* DELETE of one row with its referential actions.
Deleted(D, t, r) ==
    LET D1 == Without(D, t, r)
        D2 == [D1 EXCEPT !.messages = @ \ CascadedMessages(D, t, r)]
    IN  IF t \in {"conversations", "messages"}
            THEN [D2 EXCEPT !.trades = {Nulled(D, t, r, trade) : trade \in D2.trades}]
            ELSE D2

\* Keys are uuids in every table; the notes of this model are numbered.
Touched(D, t, r, via) ==
    [table |-> t, id |-> ToString(r.id), owner |-> Owner(D, t, r), via |-> via]

\* Every row a DELETE removes or rewrites, with its owner before.
DeleteTouches(D, t, r) ==
    {Touched(D, t, r, "statement")}
    \cup {Touched(D, "messages", m, "cascade") : m \in CascadedMessages(D, t, r)}
    \cup {Touched(D, "trades", trade, "set null") :
            trade \in {x \in D.trades : t \in {"conversations", "messages"}
                                        /\ Nulled(D, t, r, x) # x}}

\* A save that inserts whether or not the user has a row.
InsertAlways(D, u, id, values) == With(D, "user_settings", SettingsRow(id, u, values))

\* upsert({ user_id, ...settings }, { onConflict: 'user_id' })
Upsert(D, u, id, values) ==
    IF \E q \in D.user_settings : q.user_id = u
        THEN LET old == CHOOSE q \in D.user_settings : q.user_id = u
             IN  With(Without(D, "user_settings", old), "user_settings",
                      SettingsRow(old.id, u, values))
        ELSE With(D, "user_settings", SettingsRow(id, u, values))

Commit(D) ==
    /\ conversations' = D.conversations
    /\ messages' = D.messages
    /\ trades' = D.trades
    /\ memoriesTable' = D.memories
    /\ user_settings' = D.user_settings

DbInit ==
    /\ HandlerIdle
    /\ ChatMounted
    /\ useMemory = TRUE
    /\ conversationId = null
    /\ conversations = {}
    /\ user_settings = {}
    /\ memoriesTable = {}
    /\ DbIdle
    /\ page = Part007
    /\ Aside

\* SELECT * FROM each table, as uid
SelectRows ==
    \E uid \in Users :
        /\ session' = uid
        /\ returned' = UNION {{Touched(Database, t, r, "statement") :
                                 r \in {q \in Database[t] : Policy(Database, t, uid, q)}} :
                               t \in TableNames}
        /\ affected' = {}
        /\ UNCHANGED <<handler, chat, page, aside, tables, messages, trades>>

\* INSERT INTO t, as uid
InsertRow ==
    \E uid \in Users, t \in TableNames :
      \E r \in Rows(t) :
        /\ Constraints(Database, t, r)
        /\ Policy(With(Database, t, r), t, uid, r)
        /\ Commit(With(Database, t, r))
        /\ session' = uid
        /\ returned' = {}
        /\ affected' = {Touched(With(Database, t, r), t, r, "statement")}
        /\ UNCHANGED <<handler, chat, page, aside>>

\* UPDATE t SET ... WHERE id = ..., as uid
UpdateRow ==
    \E uid \in Users, t \in TableNames :
      \E old \in Database[t], new \in Rows(t) :
        /\ new.id = old.id
        /\ new # old
        /\ Policy(Database, t, uid, old)
        /\ Constraints(Without(Database, t, old), t, new)
        /\ Policy(With(Without(Database, t, old), t, new), t, uid, new)
        /\ Commit(With(Without(Database, t, old), t, new))
        /\ session' = uid
        /\ returned' = {}
        /\ affected' = {Touched(Database, t, old, "statement")}
        /\ UNCHANGED <<handler, chat, page, aside>>

\* DELETE FROM t WHERE id = ..., as uid
DeleteRow ==
    \E uid \in Users, t \in TableNames :
      \E r \in Database[t] :
        /\ Policy(Database, t, uid, r)
        /\ Commit(Deleted(Database, t, r))
        /\ session' = uid
        /\ returned' = {}
        /\ affected' = DeleteTouches(Database, t, r)
        /\ UNCHANGED <<handler, chat, page, aside>>

\* The Settings page's saveSettings, as the signed-in user; a new row gets
\* a key no row has.
saveSettings ==
    \E uid \in Users, values \in SettingsValues, id \in SettingsKeys :
        /\ id \notin Keys(user_settings) \/ \E q \in user_settings : q.user_id = uid /\ q.id = id
        /\ Commit(Upsert(Database, uid, id, values))
        /\ session' = uid
        /\ returned' = {}
        /\ affected' = {Touched(Database, "user_settings", q,
                                 IF \E x \in user_settings : x.user_id = uid
                                     THEN "updated" ELSE "created") :
                          q \in {x \in Upsert(Database, uid, id, values).user_settings :
                                   x.user_id = uid}}
        /\ UNCHANGED <<handler, chat, page, aside>>

DbNext ==
    \/ SelectRows
    \/ InsertRow
    \/ UpdateRow
    \/ DeleteRow
    \/ saveSettings

DbSpec == DbInit /\ [][DbNext]_vars

-----------------------------------------------------------------------------
(* Vocabulary of the properties *)

\* A POST request has been answered.
Answered == pc = "done" /\ request.method = "POST"

\* The answer is a success response ({ feedback, latency_ms }, status 200).
Succeeded == Answered /\ reply.status = 200

\* imageUrls is absent or empty, and contextText is absent or empty.
NoInput(b) ==
    /\ b.imageUrls.t = "undefined" \/ Len(b.imageUrls.f) = 0
    /\ b.contextText.t = "undefined" \/ b.contextText.s = ""

\* The provider answered with a chat completion (its content possibly null).
Completed == Answered /\ completion.ok /\ completion.body = "choices"

\* The text the handler hands to JSON.parse.
CompletedRaw == IF IsNullish(completion.content) THEN "" ELSE completion.content.s

HasKey(v, k) == IsObject(v) /\ k \in DOMAIN v.f

FixedApologies == {ApologyNarrative, FormattingNarrative, JsonFormattingNarrative}
ParsingHints == {ParsingHint, JsonParsingHint}

VisionModels == {VisionModel, Gpt41Model}
TextOnlyModels == {TextModel}

-----------------------------------------------------------------------------
(* C1..C10: the orchestrator's contract *)

\* C1: a request with neither images nor context text is rejected with the
\* validation error and causes no call to the completion provider, in every
\* handler variant.
C1_NoInputRejected ==
    (request.method = "POST" /\ request.json /\ NoInput(request.body))
        => /\ fetchCalls = 0
           /\ pc = "done" => reply.error = Str(ValidationMessage)

\* C2: whenever the provider's completion succeeded, the feedback of the
\* response has the key memory_hint, holding a string or null.
C2_MemoryHintPresent ==
    (Completed /\ Succeeded)
        => /\ HasKey(reply.feedback, "memory_hint")
           /\ reply.feedback.f["memory_hint"].t \in {"str", "null"}

\* C3: the feedback of every success response has a narrative that is not
\* null (nor missing).
C3_NarrativeNonNull ==
    Succeeded
        => /\ HasKey(reply.feedback, "narrative")
           /\ ~IsNullish(reply.feedback.f["narrative"])

\* C4: normalization never raises: whatever text the completion carries, the
\* request ends in a success response whose feedback is an object.
C4_NormalizationNeverRaises ==
    Completed => reply.status = 200 /\ reply.feedback.t = "obj"

\* C5: when the completion's text is not valid JSON (the empty string
\* included), the narrative returned is a non-empty string and memory_hint
\* is the parsing-issue note.
C5_ParseFailureFeedback ==
    (Completed /\ ParseThrows(CompletedRaw))
        => /\ Succeeded
           /\ HasKey(reply.feedback, "narrative")
           /\ reply.feedback.f["narrative"].t = "str"
           /\ reply.feedback.f["narrative"].s # ""
           /\ HasKey(reply.feedback, "memory_hint")
           /\ reply.feedback.f["memory_hint"].t = "str"
           /\ reply.feedback.f["memory_hint"].s \in ParsingHints

\* C6: on a parse failure the narrative is the raw text verbatim when that
\* text is non-empty, and a fixed apology string only when it is empty.
C6_FallbackNarrative ==
    (Completed /\ ParseThrows(CompletedRaw) /\ Succeeded)
        => /\ HasKey(reply.feedback, "narrative")
           /\ reply.feedback.f["narrative"].t = "str"
           /\ IF CompletedRaw # ""
                THEN reply.feedback.f["narrative"].s = CompletedRaw
                ELSE reply.feedback.f["narrative"].s \in FixedApologies

\* The failures C7 lists: an unparsable request body, a missing API key, a
\* non-success answer of the provider, a malformed provider body.
FailedAfterValidation ==
    /\ Answered
    /\ \/ ~request.json
       \/ ChecksApiKey(variant) /\ openAIApiKey = "" /\ fetchCalls = 0
            /\ ~NoInput(request.body)
       \/ fetchCalls > 0 /\ ~completion.ok
       \/ fetchCalls > 0 /\ completion.ok /\ completion.body \in {"nochoices", "notjson"}

\* C7: every such failure is answered with a non-2xx status, a non-empty
\* error string and a feedback whose narrative is the fixed apology string.
C7_FailureShape ==
    FailedAfterValidation
        => /\ reply.status \notin 200..299
           /\ reply.error.t = "str" /\ reply.error.s # ""
           /\ HasKey(reply.feedback, "narrative")
           /\ reply.feedback.f["narrative"] = Str(ApologyNarrative)

\* C8: a request rejected by validation is answered with a 4xx status.
C8_ValidationIs4xx ==
    (Answered /\ reply.error = Str(ValidationMessage)) => reply.status \in 400..499

C10_ModelByImageCount ==
    fetchCalls > 0
        => IF ImageCount(request.body) > 0
             THEN fetchBody.model \in VisionModels
             ELSE fetchBody.model \in TextOnlyModels

-----------------------------------------------------------------------------
(* Vocabulary of the prompt properties *)

\* A POST request got past the body, the validation and the key check of a
\* variant that has a completion client.
Prompted == pc \in {"awaitFetch", "done"} /\ request.method = "POST" /\ fetchCalls > 0

IsNoteLine(line) == Len(line) = 2 /\ line[1] = "- "
IsSettingsSentence(line) == \E j \in 1..Len(line) : line[j] = "You're working with a "
RecapHeadings == {RecapHeadingPart004, RecapHeadingImproved}

\* The notes a prompt lists, top to bottom.
PromptNotes(prompt) ==
    LET noteLines == SelectSeq(prompt, IsNoteLine)
    IN  [i \in 1..Len(noteLines) |-> noteLines[i][2]]

HasSettingsSentence(prompt) == \E i \in 1..Len(prompt) : IsSettingsSentence(prompt[i])
HasRecap(prompt) ==
    \E i \in 1..Len(prompt) : prompt[i] \in RecapHeadings \/ IsNoteLine(prompt[i])

\* The lookup that failed was one the handler made.
FaultHit ==
    /\ fault # NoFault
    /\ fault.step = "createClient" \/ \E i \in 1..Len(storeReads) : storeReads[i] = fault.step

\* The same request body with personalization not requested.
Unpersonalized(b) == [b EXCEPT !.useMemory = FALSE]

\* The reply the handler gives to a completion, whatever it loaded.
ReplyTo(v, c) ==
    IF AfterFetch(v, c).threw
        THEN ErrorReply(v, AfterFetch(v, c).error)
        ELSE SuccessReply(v, AfterFetch(v, c).value)

-----------------------------------------------------------------------------
(* C11..C20: personalization, prompt, client and store *)

\* C11: a failed personalization lookup (creating the client, the
\* conversation owner, the settings, the memory notes) is never propagated:
\* the provider is still called once, what the failed lookup would have
\* contributed to the prompt is left at its default, and the response is the
\* one the same completion gets when personalization was not requested.
C11_LookupFailureSwallowed ==
    (request.method = "POST" /\ request.json /\ FaultHit)
        => /\ fetchCalls = 1
           /\ fault.step \in {"createClient", "conversations"}
                => fetchBody.system
                     = SystemPrompt(variant, request.body,
                                    LoadUserData(variant, Unpersonalized(request.body), NoFault))
           /\ fault.step = "user_settings" => ~HasSettingsSentence(fetchBody.system)
           /\ fault.step = "memories" => ~HasRecap(fetchBody.system)
           /\ pc = "done" => reply = ReplyTo(variant, completion)

\* The settings lookup threw and the request was answered with a success.
C11_Witness ==
    /\ Succeeded
    /\ variant = Improved
    /\ fault = [step |-> "user_settings", mode |-> "throw"]
    /\ storeReads = <<"conversations", "user_settings">>
    /\ user_settings # {}

\* C12: the store is read only for a request with useMemory true and a
\* conversationId present; for every other request no table is queried and
\* the prompt has neither a settings sentence nor a memory recap.
C12_ReadsOnlyWhenGated ==
    (request.method = "POST" /\ request.json
     /\ ~(request.body.useMemory /\ Truthy(request.body.conversationId)))
        => /\ storeReads = <<>>
           /\ userSettings = null
           /\ memories = <<>>
           /\ ~HasSettingsSentence(fetchBody.system)
           /\ ~HasRecap(fetchBody.system)

\* useMemory is on but there is no conversationId: settings and notes are
\* stored, none is read, and the prompt went out.
C12_Witness ==
    /\ Prompted
    /\ variant = Improved
    /\ request.body.useMemory
    /\ request.body.conversationId = undefined
    /\ user_settings # {}
    /\ memoriesTable # {}
    /\ storeReads = <<>>


\* The handler variants whose prompt lists memory notes.
ListsNotes == Prompted /\ variant \in {Part004, Improved}

ExpandedFieldLines ==
    {ExpandedSchemaPart004[i] : i \in 5..13} \cup {ExpandedSchemaImproved[i] : i \in 3..7}

NarrativeLines ==
    {ExpandedSchemaPart004[4], MinimalSchemaPart004[4], ExpandedSchemaImproved[2],
     MinimalSchemaImproved[2], SystemPromptMinimal[3]}

MemoryHintLines ==
    {ExpandedSchemaPart004[14], MinimalSchemaPart004[5], ExpandedSchemaImproved[8],
     MinimalSchemaImproved[3], SystemPromptMinimal[4]}

Lines(prompt) == {prompt[i] : i \in 1..Len(prompt)}

HasExpandedSchema(prompt) ==
    /\ Lines(prompt) \cap NarrativeLines # {}
    /\ Lines(prompt) \cap MemoryHintLines # {}
    /\ Lines(prompt) \cap ExpandedFieldLines # {}

HasMinimalSchema(prompt) ==
    /\ Lines(prompt) \cap NarrativeLines # {}
    /\ Lines(prompt) \cap MemoryHintLines # {}
    /\ Lines(prompt) \cap ExpandedFieldLines = {}

\* C18: in every handler variant the prompt asks for the expanded schema
\* when requestAnalysis is true and for the minimal schema (narrative and
\* memory_hint only) when it is false or absent, never for the other one.
C18_SchemaFollowsFlag ==
    Prompted
        => IF request.body.requestAnalysis
             THEN HasExpandedSchema(fetchBody.system) /\ ~HasMinimalSchema(fetchBody.system)
             ELSE HasMinimalSchema(fetchBody.system) /\ ~HasExpandedSchema(fetchBody.system)

\* The directive that requires memory_hint and permits null.
FinalDirectives ==
    {Line("CRITICAL: Always include the memory_hint field. Use null if no specific insight.")}

\* C19: every system prompt produced, in detailed and in quick mode, with
\* or without settings and notes, ends with the directive that requires
\* the memory_hint field and permits null.
C19_EndsWithDirective ==
    Prompted
        => /\ Len(fetchBody.system) > 0
           /\ fetchBody.system[Len(fetchBody.system)] \in FinalDirectives

\* The cap of each variant's memories query, and the rows it ranges over.
Cap(v) == IF v = Part004 THEN LimitPart004 ELSE LimitImproved
Scope(v) == IF v = Part004 THEN memoriesTable ELSE {m \in memoriesTable : m.user_id = "u1"}
Rendered(v, rows) ==
    IF v = Part004
        THEN [i \in 1..Len(rows) |-> "(" \o rows[i].kind \o ") " \o rows[i].content.s]
        ELSE ContentsOf(rows)

Saves(table, role) ==
    Cardinality({i \in 1..Len(writes) : writes[i].table = table /\ writes[i].role = role})

\* C13: one handleSendMessage makes at most 3 analyze invocations, waits
\* strictly longer before each successive retry, makes no invocation after
\* one that succeeded, and repeats none of its database writes: the user
\* message is saved once before the loop, the reply and the note at most
\* once, after the invocation that succeeded.
C13_BoundedRetry ==
    /\ Len(invocations) <= 3
    /\ Len(delays) <= 2
    /\ \A i, j \in 1..Len(delays) : i < j => delays[i] < delays[j]
    /\ chatPc \in {"invoking", "backoff"} => Len(delays) = Len(invocations)
    /\ \A i \in 1..Len(invocations) :
         invocations[i] = "ok" => i = Len(invocations) /\ chatPc = "idle"
    /\ Saves("messages", "user") <= 1
    /\ Saves("messages", "ai") <= 1
    /\ Saves("memories", "note") <= 1
    /\ (Saves("messages", "ai") + Saves("memories", "note") > 0)
         => invocations # <<>> /\ invocations[Len(invocations)] = "ok"

\* Two failures, two growing waits, then the success and its saves.
C13_Witness ==
    /\ chatPc = "idle"
    /\ invocations = <<"error", "error", "ok">>
    /\ delays = <<1000, 2000>>
    /\ Saves("messages", "user") = 1
    /\ Saves("messages", "ai") = 1
    /\ Saves("memories", "note") = 1

\* C14: saveMemory is called only with a truthy memory_hint while the
\* memory toggle is on, so after any sequence of sends every stored note
\* has a content that is a non-empty string, never undefined or null.
C14_NoteContentDefined ==
    /\ \A m \in memoriesTable :
         /\ ~IsNullish(m.content)
         /\ m.content.t = "str"
         /\ m.content.s # ""
    /\ \A i \in 1..Len(writes) :
         writes[i].table = "memories"
             => writes[i].useMemory /\ Truthy(writes[i].content)

\* Two sends stored a note each; a third hint was not a string.
C14_Witness ==
    /\ chatPc = "idle"
    /\ sends = MaxSends
    /\ Cardinality(memoriesTable) = 2
    /\ \E m \in memoriesTable : m.content = Str(Insight)
    /\ \E m \in memoriesTable : m.content = Str("42")

SettingsOf(rows, u) == {r \in rows : r.user_id = u}

\* A save step leaves the user's row where it was, or creates the first.
SavedInPlace ==
    (\E a \in affected' : a.via \in {"created", "updated"})
        => LET u == session'
           IN  /\ \A r \in user_settings \ SettingsOf(user_settings, u) : r \in user_settings'
               /\ \A r \in user_settings' \ SettingsOf(user_settings', u) : r \in user_settings
               /\ IF SettingsOf(user_settings, u) = {}
                    THEN /\ Cardinality(SettingsOf(user_settings', u)) = 1
                         /\ \A a \in affected' : a.via = "created"
                    ELSE /\ Keys(SettingsOf(user_settings', u)) = Keys(SettingsOf(user_settings, u))
                         /\ \A a \in affected' : a.via = "updated"

\* C15: whatever the users save, user_settings holds at most one row per
\* user; a user's first save creates the row and every later one rewrites
\* that same row.
C15_OneSettingsRow ==
    /\ [](\A u \in Users : Cardinality(SettingsOf(user_settings, u)) <= 1)
    /\ [][SavedInPlace]_vars

\* Both users have their row, and the last save rewrote one with new values.
C15_Witness ==
    /\ Cardinality(user_settings) = 2
    /\ \A u \in Users : Cardinality(SettingsOf(user_settings, u)) = 1
    /\ \E a \in affected : a.via = "updated" /\ a.owner = session
    /\ \E r \in SettingsOf(user_settings, session) : r.risk_level = Str("Aggressive")

\* C16: every row a statement returns to a user, and every row it writes,
\* removes or rewrites, is that user's own (for a message: of a
\* conversation the user owns), whatever statements came before.
C16_OwnRowsOnly ==
    /\ \A x \in returned : x.owner = session
    /\ \A a \in affected : a.owner = session

-----------------------------------------------------------------------------
(* C21..C30 *)

\* The user who owns the conversation a request names.
ConversationOwner(b) ==
    IF \E c \in conversations : Str(c.id) = b.conversationId
        THEN (CHOOSE c \in conversations : Str(c.id) = b.conversationId).user_id
        ELSE NoOwner

\* C22: every memory note in the prompt of a request belongs to the user
\* who owns the request's conversation, in every handler variant.
C22_OwnNotesOnly ==
    ListsNotes
        => \A i \in 1..Len(memoryData) :
             memoryData[i].user_id = ConversationOwner(request.body)

\* The settings row stored for the owner of the request's conversation.
OwnerSettings(b) == {r \in user_settings : r.user_id = ConversationOwner(b)}

\* C23: when the stored settings row of the conversation's owner has
\* remember_patterns = false, the prompt lists no memory note, on every path
\* through the personalization step, a failed settings lookup included.
C23_RememberPatternsOff ==
    (ListsNotes /\ \E r \in OwnerSettings(request.body) : r.remember_patterns = Bool(FALSE))
        => PromptNotes(fetchBody.system) = <<>>

\* C25: one handleSendMessage call saves the user message at most once,
\* and never on or after a step that leaves an invocation made, the AI
\* message at most once and a note at most once, however many invocations
\* fail and are retried.
C25_SavesOnce ==
    /\ [](/\ Saves("messages", "user") <= 1
          /\ Saves("messages", "ai") <= 1
          /\ Saves("memories", "note") <= 1)
    /\ [][invocations' # <<>>
            => Saves("messages", "user")' = Saves("messages", "user")]_vars

\* The third invocation is under way after two failures, and the user
\* message is the one write so far.
C25_Witness ==
    /\ page = Part007
    /\ chatPc = "invoking"
    /\ invocations = <<"error", "error">>
    /\ Len(writes) = 1
    /\ Saves("messages", "user") = 1

\* C26: a call that has set the flag (isLoading, isAnalyzing) goes on to
\* end and to leave the flag false, whether an invocation succeeds, after
\* retries or at once, or all attempts fail, given that every awaited call
\* settles.
C26_SendTerminates == isLoading ~> (chatPc = "idle" /\ ~isLoading)

\* All three attempts failed, and the flag is down.
C26_Witness ==
    /\ page = Part007
    /\ chatPc = "idle"
    /\ invocations = <<"error", "error", "error">>
    /\ ~isLoading
    /\ "Error" \in {toasts[i] : i \in 1..Len(toasts)}

\* C27: a send of nothing but whitespace and no image makes no invocation
\* and no write, and the body of every invocation made has imageUrls or
\* contextText.
C27_NothingSentEmpty ==
    /\ (Trim(sending.text) = "" /\ sending.imageUrl = "")
         => invocations = <<>> /\ writes = <<>> /\ chatPc = "idle"
    /\ (invocations # <<>> \/ chatPc = "invoking")
         => \/ InvokeBody(sending).imageUrls # undefined
            \/ InvokeBody(sending).contextText # undefined

\* A whitespace-only send after a send that went through: nothing is
\* invoked and nothing written for it.
C27_Witness ==
    /\ sends = 2
    /\ sending.text = "   "
    /\ sending.imageUrl = ""
    /\ invocations = <<>>
    /\ writes = <<>>
    /\ toasts = <<>>

(***************************************************************************)
(* ChatComposer over the chat page: the sends that are running together.   *)
(***************************************************************************)
MaxCalls == 2

offstage == <<handler, tables, db, page>>
chatRest == <<chatPc, sending, useMemory, conversationId, retryCount, invocations, delays,
              writes, toasts, showSaveModal, sends>>

ComposerInit ==
    /\ HandlerIdle
    /\ conversations = ConversationRows
    /\ user_settings = {}
    /\ memoriesTable = {}
    /\ ChatMounted
    /\ useMemory = TRUE
    /\ conversationId = Str("c1")
    /\ DbIdle
    /\ page = Part007
    /\ Aside

\* The arguments handleSend passes on: message, uploadedImage || undefined.
Composed(requestAnalysis) ==
    [text |-> composerMessage, imageUrl |-> uploadedImage, requestAnalysis |-> requestAnalysis]

\* handleSend up to its await: the guard, then onSendMessage, whose own
\* guard passes on the same arguments and which sets isLoading.
handleSend(requestAnalysis) ==
    IF NothingToSend(Composed(requestAnalysis))
        THEN UNCHANGED <<isLoading, inFlight>>
        ELSE /\ Len(inFlight) < MaxCalls
             /\ isLoading' = TRUE
             /\ inFlight' = Append(inFlight, Composed(requestAnalysis))

\* onChange={(e) => setMessage(e.target.value)}
TypeMessage ==
    /\ \E text \in Texts : composerMessage' = text
    /\ UNCHANGED <<uploadedImage, inFlight, isLoading, offstage, chatRest, stats, objects,
                   recorder>>

\* onDrop, and the file input behind the upload button: setUploadedImage(imageUrl);
\* the X of the preview: setUploadedImage(null).
SetUploadedImage ==
    /\ \E url \in ImageUrls : uploadedImage' = url
    /\ UNCHANGED <<composerMessage, inFlight, isLoading, offstage, chatRest, stats, objects,
                   recorder>>

\* The Send and Analyze buttons, disabled={isLoading || (!message.trim() && !uploadedImage)}
ClickSend ==
    /\ ~isLoading
    /\ ~NothingToSend(Composed(FALSE))
    /\ \E requestAnalysis \in BOOLEAN : handleSend(requestAnalysis)
    /\ UNCHANGED <<composerMessage, uploadedImage, offstage, chatRest, stats, objects, recorder>>

\* onKeyPress: Enter without shift calls handleSend()
PressEnter ==
    /\ handleSend(FALSE)
    /\ UNCHANGED <<composerMessage, uploadedImage, offstage, chatRest, stats, objects, recorder>>

Remove(seq, i) == SubSeq(seq, 1, i - 1) \o SubSeq(seq, i + 1, Len(seq))

\* A running handleSendMessage comes to its finally, and handleSend goes
\* on past its await: setMessage(''), setUploadedImage(null).
Settle ==
    /\ \E i \in 1..Len(inFlight) : inFlight' = Remove(inFlight, i)
    /\ isLoading' = Finally(isLoading)
    /\ composerMessage' = ""
    /\ uploadedImage' = ""
    /\ UNCHANGED <<offstage, chatRest, stats, objects, recorder>>

ComposerNext ==
    \/ TypeMessage
    \/ SetUploadedImage
    \/ ClickSend
    \/ PressEnter
    \/ Settle

ComposerSpec == ComposerInit /\ [][ComposerNext]_vars

\* C24: isLoading is true whenever a handleSendMessage call is in flight,
\* however sends from the Send button, the Analyze button and the Enter
\* key interleave.
C24_LoadingWhileInFlight == inFlight # <<>> => isLoading

(***************************************************************************)
(* TradesAPI over table trades: outcome and rr_numeric, and getStats.      *)
(* A quotient is kept exact, as <<numerator, denominator>>.                *)
(***************************************************************************)
MaxTrades == 3

\* outcome TEXT CHECK(outcome IN('unknown','win','loss')) DEFAULT 'unknown':
\* the column is nullable, and a CHECK that evaluates to NULL passes.
OutcomeCheck(outcome) == outcome = NullRef \/ outcome \in {"unknown", "win", "loss"}
Outcomes == {o \in {"unknown", "win", "loss", "draw", NullRef} : OutcomeCheck(o)}

\* rr_numeric NUMERIC: NULL, or a number.
NoNumber == <<>>
RRs == {NoNumber, <<0>>, <<2>>}

StatsInit ==
    /\ HandlerIdle
    /\ conversations = ConversationRows
    /\ user_settings = {}
    /\ memoriesTable = {}
    /\ ChatMounted
    /\ useMemory = TRUE
    /\ conversationId = Str("c1")
    /\ DbIdle
    /\ page = Part007
    /\ Aside

backstage == <<handler, tables, chat, page, messages, session, returned, affected, objects,
               recorder, composer>>

\* TradesAPI.create: an insert of what the caller gives; a column left out
\* takes its default.
CreateTrade ==
    /\ Cardinality(trades) < MaxTrades
    /\ \E outcome \in Outcomes, rr \in RRs :
        trades' = trades \cup {[id |-> Cardinality(trades) + 1, user_id |-> "u1",
                                outcome |-> outcome, rr_numeric |-> rr]}
    /\ UNCHANGED <<stats, backstage>>

\* TradesAPI.update(id, { outcome })
UpdateTrade ==
    /\ \E trade \in trades, outcome \in Outcomes :
        trades' = (trades \ {trade}) \cup {[trade EXCEPT !.outcome = outcome]}
    /\ UNCHANGED <<stats, backstage>>

RECURSIVE SumRR(_)
\* reduce((sum, t) => sum + (t.rr_numeric || 0), 0)
SumRR(rows) ==
    IF rows = {} THEN 0
    ELSE LET t == CHOOSE x \in rows : TRUE
         IN  (IF t.rr_numeric = NoNumber THEN 0 ELSE t.rr_numeric[1]) + SumRR(rows \ {t})

\* winRate: 0; if (completed > 0) winRate = (wins / completed) * 100
WinRate(wins, losses) ==
    LET completed == wins + losses
    IN  IF completed > 0 THEN <<wins * 100, completed>> ELSE <<0, 1>>

\* The stats object getStats builds from the rows selected.
StatsOf(rows) ==
    LET wins == Cardinality({t \in rows : t.outcome = "win"})
        losses == Cardinality({t \in rows : t.outcome = "loss"})
        unknown == Cardinality({t \in rows : t.outcome = "unknown"})
        tradesWithRR == {t \in rows : t.rr_numeric # NoNumber}
    IN  [total |-> Cardinality(rows), wins |-> wins, losses |-> losses, unknown |-> unknown,
         winRate |-> WinRate(wins, losses),
         avgRR |-> IF Cardinality(tradesWithRR) > 0
                       THEN <<SumRR(tradesWithRR), Cardinality(tradesWithRR)>>
                       ELSE <<0, 1>>]

\* TradesAPI.getStats
GetStats ==
    /\ stats' = StatsOf(trades)
    /\ UNCHANGED <<trades, backstage>>

StatsNext ==
    \/ CreateTrade
    \/ UpdateTrade
    \/ GetStats

StatsSpec == StatsInit /\ [][StatsNext]_vars

\* C30: getStats returns total = wins + losses + unknown, and a winRate
\* within 0..100 that is 100 * wins / (wins + losses) when there is a
\* completed trade and 0 otherwise, with no division by zero.
C30_StatsAddUp ==
    /\ stats.total = stats.wins + stats.losses + stats.unknown
    /\ stats.winRate[2] > 0
    /\ stats.avgRR[2] > 0
    /\ 0 <= stats.winRate[1]
    /\ stats.winRate[1] <= 100 * stats.winRate[2]
    /\ IF stats.wins + stats.losses > 0
         THEN stats.winRate[1] * (stats.wins + stats.losses) = 100 * stats.wins * stats.winRate[2]
         ELSE stats.winRate[1] = 0

\* What of C30 getStats does keep: the winRate and the divisions.
C30_WinRateSound ==
    /\ stats.total >= stats.wins + stats.losses + stats.unknown
    /\ stats.winRate[2] > 0
    /\ stats.avgRR[2] > 0
    /\ 0 <= stats.winRate[1]
    /\ stats.winRate[1] <= 100 * stats.winRate[2]
    /\ IF stats.wins + stats.losses > 0
         THEN stats.winRate[1] * (stats.wins + stats.losses) = 100 * stats.wins * stats.winRate[2]
         ELSE stats.winRate[1] = 0

(***************************************************************************)
(* storage.objects under the row-level policies of the migrations.  A      *)
(* policy is its name, its command, the role it is granted to, its bucket  *)
(* and whether it compares auth.uid() to the first folder of the name.     *)
(***************************************************************************)
Buckets == {"charts", "audio"}
Commands == {"INSERT", "SELECT", "UPDATE", "DELETE"}

Verb(cmd) ==
    CASE cmd = "INSERT" -> "upload"
      [] cmd = "SELECT" -> "view"
      [] cmd = "UPDATE" -> "update"
      [] cmd = "DELETE" -> "delete"

\* "Users can upload their own charts", ... "Users can delete their own audio"
OwnPolicies(role) ==
    {[name |-> "Users can " \o Verb(cmd) \o " their own " \o bucket, cmd |-> cmd,
      role |-> role, bucket |-> bucket, own |-> TRUE] :
        cmd \in Commands, bucket \in Buckets}

\* The four policies part_001 creates for charts and part_002 for audio.
BucketPolicies(bucket) ==
    {[name |-> "Authenticated users can upload to " \o bucket \o " bucket", cmd |-> "INSERT",
      role |-> "authenticated", bucket |-> bucket, own |-> FALSE],
     [name |-> "Users can view " \o bucket, cmd |-> "SELECT",
      role |-> "authenticated", bucket |-> bucket, own |-> FALSE],
     [name |-> "Users can update their own " \o bucket \o " uploads", cmd |-> "UPDATE",
      role |-> "authenticated", bucket |-> bucket, own |-> TRUE],
     [name |-> "Users can delete their own " \o bucket \o " uploads", cmd |-> "DELETE",
      role |-> "authenticated", bucket |-> bucket, own |-> TRUE]}

\* DROP POLICY IF EXISTS name; CREATE POLICY name
Drop(policies, names) == {q \in policies : q.name \notin names}
Create(policies, created) == policies \cup created

\* The policies on storage.objects once every migration has run.
StoragePolicies ==
    LET first == Create({}, OwnPolicies("public"))
        recreated == OwnPolicies("authenticated")
        second == Create(Drop(first, {q.name : q \in recreated}), recreated)
    IN  Create(Create(second, BucketPolicies("charts")), BucketPolicies("audio"))

\* Permissive policies are OR-ed: a command on a row passes when one
\* policy for the command and the role of the session passes.
Permitted(cmd, uid, obj) ==
    \E q \in StoragePolicies :
        /\ q.cmd = cmd
        /\ q.role = "authenticated" => uid # NoSession
        /\ q.bucket = obj.bucket
        /\ q.own => (uid # NoSession /\ obj.folder = uid)

\* (storage.foldername(name))[1] of names with and without a folder.
Folders == Users \cup {""}
Objects == [bucket : Buckets, folder : Folders, name : {"file"}]

StorageInit ==
    /\ HandlerIdle
    /\ conversations = ConversationRows
    /\ user_settings = {}
    /\ memoriesTable = {}
    /\ ChatMounted
    /\ useMemory = TRUE
    /\ conversationId = Str("c1")
    /\ DbIdle
    /\ page = Part007
    /\ Aside

wings == <<handler, tables, chat, page, messages, trades, stats, recorder, composer>>

\* supabase.storage.from(bucket).upload(path, file)
Upload ==
    /\ \E uid \in Users \cup {NoSession}, obj \in Objects \ objects :
        /\ session' = uid
        /\ IF Permitted("INSERT", uid, obj)
              THEN objects' = objects \cup {obj} /\ affected' = {obj}
              ELSE UNCHANGED objects /\ affected' = {}
        /\ returned' = {}
    /\ UNCHANGED wings

\* download, list and createSignedUrl read the rows the session may select.
Download ==
    /\ \E uid \in Users \cup {NoSession} :
        /\ session' = uid
        /\ returned' = {obj \in objects : Permitted("SELECT", uid, obj)}
    /\ affected' = {}
    /\ UNCHANGED <<objects, wings>>

\* supabase.storage.from(bucket).remove([path])
RemoveObject ==
    /\ \E uid \in Users \cup {NoSession}, obj \in objects :
        /\ session' = uid
        /\ IF Permitted("DELETE", uid, obj) /\ Permitted("SELECT", uid, obj)
              THEN objects' = objects \ {obj}
              ELSE UNCHANGED objects
    /\ returned' = {}
    /\ affected' = {}
    /\ UNCHANGED wings

StorageNext ==
    \/ Upload
    \/ Download
    \/ RemoveObject

StorageSpec == StorageInit /\ [][StorageNext]_vars

\* C29: what a session reads from or uploads to the charts and audio
\* buckets lies under the folder named by its own user id.
C29_OwnFolderOnly ==
    /\ \A obj \in returned : obj.folder = session
    /\ \A obj \in affected : obj.folder = session

(***************************************************************************)
(* useAudioRecorder: startRecording and stopRecording as the steps between *)
(* their awaits.  A media recorder and the interval set with it carry the  *)
(* number of the start that made them; 0 stands for a ref holding null.    *)
(***************************************************************************)
MaxStarts == 3

RecorderInit ==
    /\ HandlerIdle
    /\ conversations = ConversationRows
    /\ user_settings = {}
    /\ memoriesTable = {}
    /\ ChatMounted
    /\ useMemory = TRUE
    /\ conversationId = Str("c1")
    /\ DbIdle
    /\ page = Part007
    /\ Aside

foyer == <<handler, tables, chat, page, db, stats, objects, composer>>

\* startRecording up to its await of getUserMedia.
StartRecording ==
    /\ starts < MaxStarts
    /\ starts' = starts + 1
    /\ pendingStarts' = pendingStarts + 1
    /\ lastCall' = "startRecording"
    /\ UNCHANGED <<isRecording, mediaRecorderRef, intervalRef, recorders, timers, uploads,
                   stopResult, foyer>>

\* getUserMedia resolves: the new recorder and the new interval go into
\* the refs, over whatever the refs held.
MicGranted ==
    /\ pendingStarts > 0
    /\ LET n == starts - pendingStarts + 1
       IN  /\ mediaRecorderRef' = n
           /\ recorders' = recorders \cup {n}
           /\ intervalRef' = n
           /\ timers' = timers \cup {n}
    /\ isRecording' = TRUE
    /\ pendingStarts' = pendingStarts - 1
    /\ lastCall' = "granted"
    /\ UNCHANGED <<uploads, stopResult, starts, foyer>>

\* getUserMedia rejects, or new MediaRecorder throws: catch, setError.
MicDenied ==
    /\ pendingStarts > 0
    /\ pendingStarts' = pendingStarts - 1
    /\ lastCall' = "denied"
    /\ UNCHANGED <<isRecording, mediaRecorderRef, intervalRef, recorders, timers, uploads,
                   stopResult, starts, foyer>>

\* stopRecording: null at once without a recorder or while not recording;
\* else the recorder of the ref stops, its onstop will upload, and the
\* interval of the ref is cleared.
StopRecording ==
    /\ IF mediaRecorderRef = 0 \/ ~isRecording
          THEN /\ stopResult' = "null"
               /\ lastCall' = "stopRecording while idle"
               /\ UNCHANGED <<isRecording, intervalRef, recorders, timers, uploads>>
          ELSE /\ recorders' = recorders \ {mediaRecorderRef}
               /\ uploads' = uploads + 1
               /\ isRecording' = FALSE
               /\ timers' = timers \ {intervalRef}
               /\ intervalRef' = 0
               /\ stopResult' = "pending"
               /\ lastCall' = "stopRecording"
    /\ UNCHANGED <<mediaRecorderRef, pendingStarts, starts, foyer>>

\* onstop: the upload and the signed URL, or the catch: resolve(null).
Uploaded ==
    /\ uploads > 0
    /\ uploads' = uploads - 1
    /\ \E result \in {"url", "null"} : stopResult' = result
    /\ lastCall' = "onstop"
    /\ UNCHANGED <<isRecording, mediaRecorderRef, intervalRef, recorders, timers,
                   pendingStarts, starts, foyer>>

RecorderNext ==
    \/ StartRecording
    \/ MicGranted
    \/ MicDenied
    \/ StopRecording
    \/ Uploaded

RecorderSpec == RecorderInit /\ [][RecorderNext]_vars

\* C28: at most one duration timer and one media recorder are active; once
\* stopRecording has run isRecording is false and no timer is active; and
\* a stopRecording while not recording resolves null and uploads nothing.
C28_OneRecorderOneTimer ==
    /\ Cardinality(timers) <= 1
    /\ Cardinality(recorders) <= 1
    /\ lastCall \in {"stopRecording", "stopRecording while idle"}
         => ~isRecording /\ timers = {}
    /\ lastCall = "stopRecording while idle" => stopResult = "null"

====
